---------------------------- MODULE Spec2Model ----------------------------
(***************************************************************************)
(* SuperHaxagon (src/SuperHaxagon.cpp): a program that attaches to the     *)
(* Super Hexagon process, reads its wall list and slot count through       *)
(* ReadProcessMemory, picks the slot whose nearest wall is farthest away   *)
(* and writes the player angle back through WriteProcessMemory.            *)
(*                                                                         *)
(* Three specifications over one set of variables:                         *)
(*   SpecSel  the slot selection of main (lines 240-250) applied to        *)
(*            bounded wall lists and slot counts;                          *)
(*   Spec     main's loop, one step per remote memory access, with the     *)
(*            target process changing its slot count between accesses and  *)
(*            every access able to fail;                                   *)
(*   SpecApi  the SuperHexagonApi member functions called one after the    *)
(*            other by a single thread, each call running to completion.   *)
(*                                                                         *)
(* assert is modelled as it behaves when assertions are compiled in (the   *)
(* program is terminated when the condition is false).                     *)
(***************************************************************************)
EXTENDS Integers, Sequences, FiniteSets

VARIABLES
    status,          \* "Running" | "Aborted" (assert failed) | "Crashed" (trap)
    pc,              \* position of the single thread of control
    walls,           \* SuperHexagonApi::walls
    numSlots,        \* main: numSlots (line 240)
    minDistances,    \* main: minDistances (line 241)
    targetSlot,      \* main: targetSlot (line 250), None outside the if-block
    slotArg,         \* SetPlayerSlot: parameter slot of the call in progress/last made
    reads,           \* SetPlayerSlot: results of its GetNumSlots() calls so far
    angle,           \* SetPlayerSlot: angle (line 176)
    writes,          \* number of Memory::Write calls completed in this loop iteration
    accessFailed,    \* a Read/WriteProcessMemory call failed or was short
    tNumSlots,       \* target memory: appBase + Offsets::NumSlots
    tPlayerAngle,    \* target memory: appBase + Offsets::PlayerAngle
    tPlayerAngle2,   \* target memory: appBase + Offsets::PlayerAngle2
    tMouseDownLeft,  \* target memory: appBase + Offsets::MouseDownLeft
    tMouseDownRight, \* target memory: appBase + Offsets::MouseDownRight
    tMouseDown,      \* target memory: appBase + Offsets::MouseDown
    lastSet,         \* SpecApi: the last SetPlayerSlot call, while its slot count stands
    ret              \* SpecApi: value returned by the last call

vars == <<status, pc, walls, numSlots, minDistances, targetSlot, slotArg, reads,
          angle, writes, accessFailed, tNumSlots, tPlayerAngle, tPlayerAngle2,
          tMouseDownLeft, tMouseDownRight, tMouseDown, lastSet, ret>>

targetVars == <<tNumSlots, tPlayerAngle, tPlayerAngle2,
                tMouseDownLeft, tMouseDownRight, tMouseDown>>

(***************************************************************************)
(* Bounds of the model.                                                    *)
(***************************************************************************)
\* SpecSel: slot counts 1..MaxSlots, wall slot indices 0..MaxSlots (so that a
\* stored index can exceed the slot count), wall lists of up to MaxWalls walls,
\* distances 0..MaxDist and the largest DWORD.
MaxSlots == 3
MaxWalls == 2
MaxDist == 2
\* Spec: the target holds slot counts 0..LoopMaxSlots and up to LoopMaxWalls walls.
LoopMaxSlots == 2
LoopMaxWalls == 1
\* SpecApi: the target holds slot counts 0..ApiMaxSlots.
ApiMaxSlots == 20

(***************************************************************************)
(* DWORD values that need the full 32-bit range (Wall::distance and the    *)
(* -1 of line 241) are pairs <<high half, low half>> of 16-bit halves.     *)
(***************************************************************************)
HalfMax == 2^16 - 1

Dword(n) == <<n \div 2^16, n % 2^16>>

\* static_cast<DWORD>(-1): all bits set.
DwordMax == <<HalfMax, HalfMax>>

\* a < b on DWORDs
DLess(a, b) == a[1] < b[1] \/ (a[1] = b[1] /\ a[2] < b[2])

\* the min macro of Windows.h: (a < b) ? a : b
DMinTakesSecond(a, b) == b
DMin(a, b) == IF DLess(a, b) THEN a ELSE b

\* targetSlot, slotArg, lastSet and ret hold <<v>> when set and <<>> when not.
None == <<>>

(***************************************************************************)
(* SuperHexagonApi::Wall (lines 107-115); the fill and unk fields are      *)
(* never interpreted.                                                      *)
(***************************************************************************)
Wall(s, d, e) == [slot |-> s, distance |-> d, enabled |-> e]

\* std::vector<Wall>::resize value-initialises the new elements.
ZeroWall == Wall(0, Dword(0), FALSE)

(***************************************************************************)
(* The slot selection of main, lines 241-250.                              *)
(***************************************************************************)
\* std::vector<DWORD> minDistances(numSlots, -1)
MinDistancesInit(n) == [i \in 0 .. n - 1 |-> DwordMax]

\* a.distance > 0 && a.enabled
QualifiesEnabledOnly(a) == a.enabled
Qualifies(a) == DLess(Dword(0), a.distance) /\ a.enabled

\* a.slot % numSlots
SlotOf(a, n) == a.slot % n

\* the body of the lambda passed to for_each
VisitWall(md, a, n) ==
    IF Qualifies(a)
    THEN [md EXCEPT ![SlotOf(a, n)] = DMin(md[SlotOf(a, n)], a.distance)]
    ELSE md

\* std::for_each(api.walls.begin(), api.walls.end(), ...)
RECURSIVE ForEach(_, _, _)
ForEach(ws, md, n) ==
    IF ws = <<>> THEN md ELSE ForEach(Tail(ws), VisitWall(md, Head(ws), n), n)

\* std::max_element: largest = first; while (++first != last)
\*                   if (*largest < *first) largest = first;
RECURSIVE MaxElementFrom(_, _, _, _)
MaxElementFrom(md, n, first, largest) ==
    IF first = n THEN largest
    ELSE MaxElementFrom(md, n, first + 1,
                        IF DLess(md[largest], md[first]) THEN first ELSE largest)

\* std::distance(minDistances.begin(), maxElement); on an empty range
\* max_element returns last, which is begin.
MaxElementOneBased(md, n) == IF n = 0 THEN 0 ELSE MaxElementFrom(md, n, 1, 0) + 1
MaxElement(md, n) == IF n = 0 THEN 0 ELSE MaxElementFrom(md, n, 1, 0)

\* lines 241-250 for numSlots = n >= 1 (n = 0 with no qualifying wall included)
Decide(n) ==
    /\ minDistances' = ForEach(walls, MinDistancesInit(n), n)
    /\ targetSlot' = <<MaxElement(minDistances', n)>>

(***************************************************************************)
(* SpecSel: the selection applied to bounded inputs.                       *)
(***************************************************************************)
Distances == {Dword(d) : d \in 0 .. MaxDist} \cup {DwordMax}

SelWalls == {Wall(s, d, e) : s \in 0 .. MaxSlots, d \in Distances, e \in BOOLEAN}

SeqsUpTo(S, n) == UNION {[1 .. k -> S] : k \in 0 .. n}

Idle ==
    /\ status = "Running"
    /\ slotArg = None /\ reads = <<>> /\ angle = 0 /\ writes = 0
    /\ accessFailed = FALSE
    /\ tNumSlots = 1 /\ tPlayerAngle = 0 /\ tPlayerAngle2 = 0
    /\ tMouseDownLeft = 0 /\ tMouseDownRight = 0 /\ tMouseDown = 0
    /\ lastSet = None /\ ret = None

InitSel ==
    /\ Idle
    /\ pc = "select"
    /\ walls \in SeqsUpTo(SelWalls, MaxWalls) \ {<<>>}
    /\ numSlots \in 1 .. MaxSlots
    /\ minDistances = <<>>
    /\ targetSlot = None

SelectSlot ==
    /\ pc = "select"
    /\ Decide(numSlots)
    /\ pc' = "selected"
    /\ UNCHANGED <<status, walls, numSlots, slotArg, reads, angle, writes,
                   accessFailed, targetVars, lastSet, ret>>

NextSel == SelectSlot

SpecSel == InitSel /\ [][NextSel]_vars


(***************************************************************************)
(* Spec: main's loop (lines 234-259), one step per call of                 *)
(* ReadProcessMemory / WriteProcessMemory.                                 *)
(*                                                                         *)
(* The target process runs beside the program.  Its slot count is kept as  *)
(* state and may change between any two accesses (TargetSetNumSlots); the  *)
(* wall count, the wall records and the world angle are whatever the       *)
(* target holds at the moment they are read, so each read of them draws a  *)
(* value from the bounded sets below.                                      *)
(***************************************************************************)
LoopSlotCounts == 0 .. LoopMaxSlots

\* walls in slot 0 or 1: live at distance 1, enabled at distance 0, or disabled
LoopWalls ==
    {Wall(s, Dword(1), TRUE) : s \in 0 .. 1}
        \cup {Wall(s, Dword(0), TRUE) : s \in 0 .. 1}
        \cup {Wall(s, Dword(1), FALSE) : s \in 0 .. 1}

\* assert(cond): the program goes on when cond holds and is terminated otherwise
AssertIgnored(cond) == "Running"
AssertOutcome(cond) == IF cond THEN "Running" ELSE "Aborted"

\* Memory::Read / ReadBytes / Write when ReadProcessMemory or WriteProcessMemory
\* fails or transfers fewer bytes than asked: assert(success && num == size)
AccessFails ==
    /\ accessFailed' = TRUE
    /\ status' = AssertOutcome(FALSE)

\* a DWORD at `old` after a write of `new` that transferred only k of its 4 bytes
\* (little-endian: the k low bytes are new)
Torn(old, new, k) == (old - (old % (256^k))) + (new % (256^k))

\* if (!api.walls.empty())
DecidesAlways(ws) == TRUE
Decides(ws) == ws # <<>>

\* Unsigned division and remainder.  A zero divisor is undefined behaviour: the
\* x86 div instruction traps (the steps below then end in "Crashed"), on ARM
\* udiv yields 0 and the remainder, computed as a - (a / b) * b, is a.
UDiv(a, b) == IF b = 0 THEN 0 ELSE a \div b
UMod(a, b) == IF b = 0 THEN a ELSE a % b

\* SetPlayerSlot, line 176, with the results n1, n2, n3 of its three
\* GetNumSlots() calls.  All values of the model stay far below 2^32, so the
\* DWORD arithmetic does not wrap.
SlotAngleNoHalf(n1, slot, n2, n3) == UDiv(360, n1) * UMod(slot, n2)
SlotAngle(n1, slot, n2, n3) == UDiv(360, n1) * UMod(slot, n2) + UDiv(180, n3)

Init ==
    /\ status = "Running"
    /\ pc = "Construct"
    /\ walls = <<>>
    /\ numSlots = 0
    /\ minDistances = <<>>
    /\ targetSlot = None
    /\ slotArg = None /\ reads = <<>> /\ angle = 0 /\ writes = 0
    /\ accessFailed = FALSE
    /\ tNumSlots \in LoopSlotCounts
    /\ tPlayerAngle = 0 /\ tPlayerAngle2 = 0
    /\ tMouseDownLeft = 0 /\ tMouseDownRight = 0 /\ tMouseDown = 0
    /\ lastSet = None /\ ret = None

\* SuperHexagonApi::SuperHexagonApi, lines 143-148
Construct ==
    /\ status = "Running" /\ pc = "Construct"
    /\ \/ \E appBase \in {0, 1} :
             /\ status' = AssertOutcome(appBase # 0)
             /\ pc' = IF appBase # 0 THEN "UpdateWalls" ELSE pc
             /\ UNCHANGED accessFailed
       \/ AccessFails /\ UNCHANGED pc
    /\ UNCHANGED <<walls, numSlots, minDistances, targetSlot, slotArg, reads,
                   angle, writes, targetVars, lastSet, ret>>

\* UpdateWalls, lines 162-164: walls.clear(); numWalls = GetNumWalls();
\* walls.resize(numWalls).  A new loop iteration starts here: the locals of the
\* previous one are gone.
UpdateWalls_GetNumWalls ==
    /\ status = "Running" /\ pc = "UpdateWalls"
    /\ numSlots' = 0 /\ minDistances' = <<>> /\ targetSlot' = None
    /\ slotArg' = None /\ reads' = <<>> /\ angle' = 0 /\ writes' = 0
    /\ \/ \E numWalls \in 0 .. LoopMaxWalls :
             /\ walls' = [i \in 1 .. numWalls |-> ZeroWall]
             /\ pc' = "ReadBytes"
             /\ UNCHANGED <<status, accessFailed>>
       \/ AccessFails /\ walls' = <<>> /\ UNCHANGED pc
    /\ UNCHANGED <<targetVars, lastSet, ret>>

\* UpdateWalls, line 165: ReadBytes of sizeof(Wall) * numWalls bytes into
\* walls.data(); then main, line 239.  A short transfer leaves the first
\* records copied and the rest as resize made them.
UpdateWalls_ReadBytes ==
    /\ status = "Running" /\ pc = "ReadBytes"
    /\ \E w \in [1 .. Len(walls) -> LoopWalls] :
          \/ /\ walls' = w
             /\ pc' = IF Decides(w) THEN "GetNumSlots" ELSE "Sleep"
             /\ UNCHANGED <<status, accessFailed>>
          \/ \E k \in 0 .. Len(walls) :
                /\ k < Len(walls) \/ Len(walls) = 0
                /\ walls' = [i \in 1 .. Len(walls) |-> IF i <= k THEN w[i] ELSE ZeroWall]
                /\ AccessFails
                /\ UNCHANGED pc
    /\ UNCHANGED <<numSlots, minDistances, targetSlot, slotArg, reads, angle,
                   writes, targetVars, lastSet, ret>>

\* main, lines 240-250: numSlots = api.GetNumSlots() and the selection.  With
\* numSlots = 0 the vector is empty; a qualifying wall then evaluates
\* a.slot % 0 and indexes the empty vector (whose data pointer is null), which
\* ends the process on every build; with no qualifying wall max_element
\* returns end() == begin() and targetSlot is 0.
Main_GetNumSlots ==
    /\ status = "Running" /\ pc = "GetNumSlots"
    /\ \/ /\ numSlots' = tNumSlots
          /\ IF tNumSlots = 0 /\ \E i \in 1 .. Len(walls) : Qualifies(walls[i])
             THEN /\ status' = "Crashed"
                  /\ UNCHANGED <<pc, minDistances, targetSlot>>
             ELSE /\ Decide(tNumSlots)
                  /\ pc' = "GetWorldAngle"
                  /\ UNCHANGED status
          /\ UNCHANGED accessFailed
       \/ AccessFails /\ UNCHANGED <<pc, numSlots, minDistances, targetSlot>>
    /\ UNCHANGED <<walls, slotArg, reads, angle, writes, targetVars, lastSet, ret>>

\* main, lines 251-254: api.GetWorldAngle() for the status line (the value only
\* goes to std::cout), then the call api.SetPlayerSlot(targetSlot).
Main_GetWorldAngle ==
    /\ status = "Running" /\ pc = "GetWorldAngle"
    /\ \/ /\ slotArg' = targetSlot
          /\ pc' = "SetPlayerSlot"
          /\ UNCHANGED <<status, accessFailed>>
       \/ AccessFails /\ UNCHANGED <<pc, slotArg>>
    /\ UNCHANGED <<walls, numSlots, minDistances, targetSlot, reads, angle,
                   writes, targetVars, lastSet, ret>>

\* SetPlayerSlot, line 176: one of the three GetNumSlots() calls; reads[1] is the
\* divisor of 360, reads[2] that of slot, reads[3] that of 180.  The calls are
\* indeterminately sequenced, and as the target may change its slot count
\* between any two of them every order yields the same triples.  A zero read
\* is a zero divisor (see UDiv).
SetPlayerSlot_GetNumSlots ==
    /\ status = "Running" /\ pc = "SetPlayerSlot"
    /\ \/ /\ reads' = Append(reads, tNumSlots)
          /\ \/ /\ Len(reads') < 3
                /\ UNCHANGED <<pc, angle, status>>
             \/ /\ Len(reads') = 3
                /\ angle' = SlotAngle(reads'[1], slotArg[1], reads'[2], reads'[3])
                /\ pc' = "Write1"
                /\ UNCHANGED status
             \/ /\ tNumSlots = 0
                /\ status' = "Crashed"
                /\ UNCHANGED <<pc, angle>>
          /\ UNCHANGED accessFailed
       \/ AccessFails /\ UNCHANGED <<pc, reads, angle>>
    /\ UNCHANGED <<walls, numSlots, minDistances, targetSlot, slotArg, writes,
                   targetVars, lastSet, ret>>

\* SetPlayerSlot, line 177: memory.Write(appBase + Offsets::PlayerAngle, angle).
\* The temporaries of line 176 are gone once the statement is complete.
SetPlayerSlot_Write1 ==
    /\ status = "Running" /\ pc = "Write1"
    /\ \/ /\ tPlayerAngle' = angle
          /\ writes' = writes + 1
          /\ pc' = "Write2"
          /\ reads' = <<>>
          /\ UNCHANGED <<status, accessFailed>>
       \/ /\ \E k \in 0 .. 3 : tPlayerAngle' = Torn(tPlayerAngle, angle, k)
          /\ AccessFails
          /\ UNCHANGED <<pc, writes, reads>>
    /\ UNCHANGED <<walls, numSlots, minDistances, targetSlot, slotArg, angle,
                   tNumSlots, tPlayerAngle2, tMouseDownLeft, tMouseDownRight,
                   tMouseDown, lastSet, ret>>

\* SetPlayerSlot, line 178: memory.Write(appBase + Offsets::PlayerAngle2, angle)
SetPlayerSlot_Write2 ==
    /\ status = "Running" /\ pc = "Write2"
    /\ \/ /\ tPlayerAngle2' = angle
          /\ writes' = writes + 1
          /\ pc' = "Sleep"
          /\ UNCHANGED <<status, accessFailed>>
       \/ /\ \E k \in 0 .. 3 : tPlayerAngle2' = Torn(tPlayerAngle2, angle, k)
          /\ AccessFails
          /\ UNCHANGED <<pc, writes>>
    /\ UNCHANGED <<walls, numSlots, minDistances, targetSlot, slotArg, reads, angle,
                   tNumSlots, tPlayerAngle, tMouseDownLeft, tMouseDownRight,
                   tMouseDown, lastSet, ret>>

\* main, lines 257-258: Sleep(10); system("cls"); and around the for (;;)
Main_Sleep ==
    /\ status = "Running" /\ pc = "Sleep"
    /\ pc' = "UpdateWalls"
    /\ UNCHANGED <<status, walls, numSlots, minDistances, targetSlot, slotArg,
                   reads, angle, writes, accessFailed, targetVars, lastSet, ret>>

\* the target process stores another slot count
TargetSetNumSlots ==
    /\ status = "Running" /\ pc # "Construct"
    /\ \E n \in LoopSlotCounts : n # tNumSlots /\ tNumSlots' = n
    /\ UNCHANGED <<status, pc, walls, numSlots, minDistances, targetSlot, slotArg,
                   reads, angle, writes, accessFailed, tPlayerAngle, tPlayerAngle2,
                   tMouseDownLeft, tMouseDownRight, tMouseDown, lastSet, ret>>

Next ==
    \/ Construct
    \/ UpdateWalls_GetNumWalls
    \/ UpdateWalls_ReadBytes
    \/ Main_GetNumSlots
    \/ Main_GetWorldAngle
    \/ SetPlayerSlot_GetNumSlots
    \/ SetPlayerSlot_Write1
    \/ SetPlayerSlot_Write2
    \/ Main_Sleep
    \/ TargetSetNumSlots

Spec == Init /\ [][Next]_vars

(***************************************************************************)
(* IEEE-754 single precision, as GetPlayerSlot uses it (lines 183-184).    *)
(* A positive float is <<m, e>>, standing for m * 2^e with                 *)
(* 2^23 <= m < 2^24; zero is <<0, 0>>.  Results are rounded to nearest,    *)
(* ties to even.                                                           *)
(***************************************************************************)
\* static_cast<float>(DWORD) for a value below 2^24 (exact)
RECURSIVE F32Normalise(_, _)
F32Normalise(m, e) ==
    IF m = 0 THEN <<0, 0>>
    ELSE IF m < 2^23 THEN F32Normalise(2 * m, e - 1)
    ELSE <<m, e>>

F32FromDword(a) == F32Normalise(a, 0)

\* m rounded up when the discarded part exceeds half a unit, or equals it and m
\* is odd; renormalised when the mantissa overflows
F32Round(m, e, above, tie) ==
    LET up == above \/ (tie /\ m % 2 = 1)
        r == IF up THEN m + 1 ELSE m
    IN  IF r = 2^24 THEN <<2^23, e + 1>> ELSE <<r, e>>

\* long division of q + r / d: quotient bits are produced until the quotient
\* has 24 significant bits
RECURSIVE F32DivBits(_, _, _, _)
F32DivBits(q, r, d, e) ==
    IF q >= 2^23 THEN F32Round(q, e, 2 * r > d, 2 * r = d)
    ELSE F32DivBits(2 * q + (2 * r) \div d, (2 * r) % d, d, e - 1)

\* float(a) / float(d) for integers 0 <= a < 2^24, 0 < d
F32DivInt(a, d) ==
    IF a = 0 THEN <<0, 0>> ELSE F32DivBits(a \div d, a % d, d, 0)

RECURSIVE F32ShiftCount(_, _)
F32ShiftCount(p, t) == IF p \div 2^t < 2^24 THEN t ELSE F32ShiftCount(p, t + 1)

\* x * float(n) for a float x and an integer 0 <= n < 2^7
F32MulInt(x, n) ==
    IF x[1] = 0 \/ n = 0 THEN <<0, 0>>
    ELSE LET p == x[1] * n
             t == F32ShiftCount(p, 0)
         IN  IF t = 0 THEN <<p, x[2]>>
             ELSE F32Round(p \div 2^t, x[2] + t,
                           p % 2^t > 2^(t - 1), p % 2^t = 2^(t - 1))

\* static_cast<DWORD>(x): truncation toward zero
F32ToDword(x) ==
    IF x[2] >= 0 THEN x[1] * 2^x[2]
    ELSE IF x[2] <= -24 THEN 0
    ELSE x[1] \div 2^(-x[2])

\* GetPlayerSlot, lines 183-184: static_cast<DWORD>(angle / 360.0f * GetNumSlots())
PlayerSlotOf(playerAngle, n) ==
    F32ToDword(F32MulInt(F32DivInt(playerAngle, 360), n))

(***************************************************************************)
(* SpecApi: the member functions of SuperHexagonApi called in any order    *)
(* by one thread; every call runs to completion with all its memory        *)
(* accesses succeeding, and the target changes its slot count only         *)
(* between calls.  pc names the call that returned last.                   *)
(***************************************************************************)
ApiSlotCounts == 0 .. ApiMaxSlots

InitApi ==
    /\ status = "Running"
    /\ pc = "Attached"
    /\ walls = <<>>
    /\ numSlots = 0
    /\ minDistances = <<>>
    /\ targetSlot = None
    /\ slotArg = None /\ reads = <<>> /\ angle = 0 /\ writes = 0
    /\ accessFailed = FALSE
    /\ tNumSlots \in ApiSlotCounts
    /\ tPlayerAngle = 0 /\ tPlayerAngle2 = 0
    /\ tMouseDownLeft = 0 /\ tMouseDownRight = 0 /\ tMouseDown = 0
    /\ lastSet = None /\ ret = None

loopLocals == <<walls, numSlots, minDistances, targetSlot, slotArg, reads, angle,
                writes, accessFailed>>

\* SetPlayerSlot(slot), lines 173-179.  With a slot count of 0 the divisions
\* trap or go on with the values of UDiv and UMod.
SetPlayerSlot(slot) ==
    /\ status = "Running"
    /\ \/ /\ tPlayerAngle' = SlotAngle(tNumSlots, slot, tNumSlots, tNumSlots)
          /\ tPlayerAngle2' = SlotAngle(tNumSlots, slot, tNumSlots, tNumSlots)
          /\ lastSet' = <<[slot |-> slot, n |-> tNumSlots]>>
          /\ ret' = None
          /\ pc' = "SetPlayerSlot"
          /\ UNCHANGED status
       \/ /\ tNumSlots = 0
          /\ status' = "Crashed"
          /\ UNCHANGED <<tPlayerAngle, tPlayerAngle2, lastSet, ret, pc>>
    /\ UNCHANGED <<loopLocals, tNumSlots, tMouseDownLeft, tMouseDownRight, tMouseDown>>

\* GetPlayerSlot, lines 181-185
GetPlayerSlot ==
    /\ status = "Running"
    /\ ret' = <<PlayerSlotOf(tPlayerAngle, tNumSlots)>>
    /\ pc' = "GetPlayerSlot"
    /\ UNCHANGED <<status, loopLocals, targetVars, lastSet>>

\* StartMovingLeft, lines 187-191
StartMovingLeft ==
    /\ status = "Running"
    /\ tMouseDownLeft' = 1
    /\ tMouseDown' = 1
    /\ pc' = "StartMovingLeft"
    /\ UNCHANGED <<status, loopLocals, tNumSlots, tPlayerAngle, tPlayerAngle2,
                   tMouseDownRight, lastSet, ret>>

\* StartMovingRight, lines 193-197
StartMovingRight ==
    /\ status = "Running"
    /\ tMouseDownRight' = 1
    /\ tMouseDown' = 1
    /\ pc' = "StartMovingRight"
    /\ UNCHANGED <<status, loopLocals, tNumSlots, tPlayerAngle, tPlayerAngle2,
                   tMouseDownLeft, lastSet, ret>>

\* ReleaseMouse, lines 199-204
ReleaseMouse ==
    /\ status = "Running"
    /\ tMouseDownLeft' = 0
    /\ tMouseDownRight' = 0
    /\ tMouseDown' = 0
    /\ pc' = "ReleaseMouse"
    /\ UNCHANGED <<status, loopLocals, tNumSlots, tPlayerAngle, tPlayerAngle2,
                   lastSet, ret>>

\* the target process stores another slot count between two calls
Api_TargetSetNumSlots ==
    /\ status = "Running"
    /\ \E n \in ApiSlotCounts : n # tNumSlots /\ tNumSlots' = n
    /\ lastSet' = None
    /\ ret' = None
    /\ UNCHANGED <<status, pc, loopLocals, tPlayerAngle, tPlayerAngle2,
                   tMouseDownLeft, tMouseDownRight, tMouseDown>>

NextApi ==
    \/ \E slot \in ApiSlotCounts : SetPlayerSlot(slot)
    \/ GetPlayerSlot
    \/ StartMovingLeft
    \/ StartMovingRight
    \/ ReleaseMouse
    \/ Api_TargetSetNumSlots

SpecApi == InitApi /\ [][NextApi]_vars

(***************************************************************************)
(* Claims about the slot selection (SpecSel).                              *)
(***************************************************************************)
Selected == pc = "selected"

\* the walls of ws that count for slot s when there are n slots
QualifyingIn(ws, n, s) ==
    {i \in 1 .. Len(ws) :
        ws[i].enabled /\ ws[i].distance # Dword(0) /\ ws[i].slot % n = s}

\* the reference minimum of slot s: the least distance of its qualifying walls,
\* the largest DWORD when it has none
RefMin(ws, n, s) ==
    LET ds == {ws[i].distance : i \in QualifyingIn(ws, n, s)} \cup {DwordMax}
    IN  CHOOSE d \in ds : \A e \in ds : ~DLess(e, d)

\* the reference result: the lowest index whose reference minimum is the largest
RefSelect(ws, n) ==
    CHOOSE s \in 0 .. n - 1 :
        /\ \A t \in 0 .. n - 1 : ~DLess(RefMin(ws, n, s), RefMin(ws, n, t))
        /\ \A t \in 0 .. s - 1 : DLess(RefMin(ws, n, t), RefMin(ws, n, s))

Orders(n) == {p \in [1 .. n -> 1 .. n] : \A i, j \in 1 .. n : p[i] = p[j] => i = j}

Reordered(ws) == {[i \in 1 .. Len(ws) |-> ws[p[i]]] : p \in Orders(Len(ws))}

\* C1: for every slot count >= 1 and every non-empty wall list (slot indices at
\* or above the slot count included) the selected slot is an index i with
\* 0 <= i < numSlots.
C1_SlotInRange == Selected => targetSlot[1] \in 0 .. numSlots - 1

C1_Witness ==
    /\ Selected
    /\ \E i \in 1 .. Len(walls) : walls[i].slot >= numSlots /\ Qualifies(walls[i])
    /\ targetSlot[1] = numSlots - 1

\* C2: the selected slot equals the reference result (per-slot minimum over the
\* enabled walls of nonzero distance, slot index reduced modulo the slot count,
\* lowest index among the largest minima), and it is the same for every order
\* of the walls in the list.
C2_MatchesReference ==
    Selected =>
        /\ targetSlot[1] = RefSelect(walls, numSlots)
        /\ \A i \in 0 .. numSlots - 1 : minDistances[i] = RefMin(walls, numSlots, i)
        /\ \A ws \in Reordered(walls) :
              MaxElement(ForEach(ws, MinDistancesInit(numSlots), numSlots), numSlots)
                  = targetSlot[1]

C2_Witness ==
    /\ Selected
    /\ Len(walls) = 2
    /\ Qualifies(walls[1]) /\ Qualifies(walls[2])
    /\ SlotOf(walls[1], numSlots) = SlotOf(walls[2], numSlots)
    /\ walls[1].slot # walls[2].slot
    /\ DLess(walls[1].distance, walls[2].distance)
    /\ targetSlot[1] > 0

\* C3: whenever some slot in [0, numSlots) has no qualifying wall, the selected
\* slot has no qualifying wall, for every distance a wall can hold (the largest
\* DWORD included).
C3_FreeLanePreferred ==
    Selected =>
        ((\E s \in 0 .. numSlots - 1 : QualifyingIn(walls, numSlots, s) = {})
            => QualifyingIn(walls, numSlots, targetSlot[1]) = {})

(***************************************************************************)
(* Claims about main's loop (Spec).                                        *)
(***************************************************************************)
\* every wall of ws is disabled or has distance 0
AllInactive(ws) ==
    \A i \in 1 .. Len(ws) : ~ws[i].enabled \/ ws[i].distance = Dword(0)

AfterSelection == pc \in {"GetWorldAngle", "SetPlayerSlot", "Write1", "Write2", "Sleep"}

InSetPlayerSlot == pc \in {"SetPlayerSlot", "Write1", "Write2"}

\* C4: when the refreshed wall list is non-empty but every wall is disabled or
\* has distance 0, the selection is slot 0 (a decision, not "no decision"), and
\* the iteration calls SetPlayerSlot(0): an iteration that runs to its end has
\* made the call and both of its writes.
C4_AllInactiveSelectsZero ==
    (walls # <<>> /\ AllInactive(walls)) =>
        /\ AfterSelection => targetSlot = <<0>>
        /\ (InSetPlayerSlot \/ pc = "Sleep") => slotArg = <<0>>
        /\ pc = "Sleep" => writes = 2

C4_Witness ==
    /\ pc = "Sleep" /\ status = "Running"
    /\ walls # <<>> /\ AllInactive(walls)
    /\ \E i \in 1 .. Len(walls) : walls[i].enabled /\ walls[i].slot = 0
    /\ numSlots >= 2
    /\ slotArg = <<0>> /\ writes = 2

\* C5: in every loop iteration a write to the player angle fields happens if and
\* only if the wall list refreshed in that iteration is non-empty: with an empty
\* list there is no decision, no call of SetPlayerSlot and no write, whatever the
\* earlier iterations read or wrote; an iteration with a non-empty list that
\* runs to its end has written.
C5_WriteIffNonEmpty ==
    /\ walls = <<>> =>
          /\ targetSlot = None /\ slotArg = None /\ writes = 0
          /\ pc \in {"Construct", "UpdateWalls", "ReadBytes", "Sleep"}
    /\ pc = "Sleep" => (writes > 0 <=> walls # <<>>)

C5_Witness ==
    /\ pc = "Sleep" /\ status = "Running"
    /\ walls = <<>> /\ writes = 0
    /\ tPlayerAngle # 0 /\ tPlayerAngle = tPlayerAngle2

\* C8 as claimed: a memory access failure during a loop iteration produces no
\* write-back in that iteration and does not stop the loop.
C8_FailureSkipsIteration ==
    (accessFailed /\ pc # "Construct") => (status = "Running" /\ writes = 0)

\* C8 as amended: a failed or short memory access terminates the program at that
\* access (the assert of Memory::Read, ReadBytes or Write): from then on no
\* write-back reaches the target and no further step of the loop is executed;
\* a write completed earlier in the same iteration stands.
C8_FailureAborts ==
    [][ /\ accessFailed' => status' = "Aborted"
        /\ status = "Aborted" => UNCHANGED <<pc, writes, targetVars>> ]_vars

C8_Witness ==
    /\ accessFailed /\ status = "Aborted"
    /\ pc = "Write2" /\ writes = 1
    /\ tPlayerAngle # tPlayerAngle2

\* C10: within one loop iteration the slot count used for the selection and
\* every slot count SetPlayerSlot reads are the same value, so that the angle
\* written lies inside the selected slot for the slot count of the selection.
\* (Stated here for the iterations in which no slot count read is 0.)
C10_SameSlotCount ==
    (Len(reads) = 3 /\ numSlots >= 1 /\ status = "Running"
        /\ \A i \in 1 .. 3 : reads[i] >= 1) =>
        /\ \A i \in 1 .. 3 : reads[i] = numSlots
        /\ (angle * numSlots) \div 360 = targetSlot[1]

(***************************************************************************)
(* Claims about the member functions (SpecApi).                            *)
(***************************************************************************)
\* C6: SetPlayerSlot(k) followed by GetPlayerSlot(), the slot count n >= 1 of
\* the target unchanged in between, returns k for all 0 <= k < n.
C6_RoundTrip ==
    (pc = "GetPlayerSlot" /\ lastSet # None /\ ret # None) =>
        ((lastSet[1].n >= 1 /\ lastSet[1].slot < lastSet[1].n)
            => ret[1] = lastSet[1].slot)

\* C7: starting from all input bytes cleared, after any sequence of
\* StartMovingLeft, StartMovingRight and ReleaseMouse calls the left and right
\* bytes are never both 1, the input-active byte is 1 whenever a direction byte
\* is 1, and after ReleaseMouse all three bytes are 0.
C7_OneDirection ==
    /\ ~(tMouseDownLeft = 1 /\ tMouseDownRight = 1)
    /\ (tMouseDownLeft = 1 \/ tMouseDownRight = 1) => tMouseDown = 1
    /\ pc = "ReleaseMouse" =>
          (tMouseDownLeft = 0 /\ tMouseDownRight = 0 /\ tMouseDown = 0)

\* SetPlayerSlot returned last, from a call made with slot count n >= 1: both
\* angle fields hold (360 div n) * (slot mod n) + (180 div n)
AnglesMirrored ==
    (pc = "SetPlayerSlot" /\ lastSet # None /\ lastSet[1].n >= 1) =>
        /\ tPlayerAngle = tPlayerAngle2
        /\ tPlayerAngle = (360 \div lastSet[1].n) * (lastSet[1].slot % lastSet[1].n)
                              + (180 \div lastSet[1].n)

=============================================================================
